---- MODULE Spec2Model ----
(***************************************************************************)
(* Exam planner (src/main.py): the ExamScheduler conflict graph with its   *)
(* capacity-bounded greedy colouring, and the ExamPlannerUI handlers that  *)
(* drive it.                                                               *)
(*                                                                         *)
(* Spec    : a host calling the four ExamScheduler methods directly.       *)
(* SpecRun : one call of schedule_exams, statement by statement, from      *)
(*           every state a host can bring the scheduler to.                *)
(* SpecUI  : the Tk handlers of ExamPlannerUI, from the example data.      *)
(***************************************************************************)
EXTENDS Integers, Sequences, FiniteSets, TLC

VARIABLES
    courses,          \* ExamScheduler.courses : set of course names
    graph,            \* ExamScheduler.graph   : defaultdict(set), a function on its keys
    hash_order,       \* the order in which this process' str hashes make a set iterate
                      \* (CPython randomises it per process; it is fixed within one)
    time_slots,       \* value returned by the last call when it was schedule_exams
    schedule_result,  \* ExamPlannerUI.schedule_result
    courses_listbox,  \* ExamPlannerUI.courses_listbox rows
    last,             \* the last call made: operation, arguments, branch taken
    run               \* the frame of a schedule_exams call in progress (SpecRun)

vars == <<courses, graph, hash_order, time_slots, schedule_result, courses_listbox, last, run>>

-----------------------------------------------------------------------------
(* Bounds and universes *)

NumItems == 3

ItemNames == <<"A", "B", "C", "D", "E">>

Items == {ItemNames[i] : i \in 1..NumItems}

\* lexicographic order of the identifiers in Items
LexOrder == SubSeq(ItemNames, 1, NumItems)

RECURSIVE Perms(_)
Perms(S) ==
    IF S = {} THEN {<<>>}
    ELSE UNION {{<<x>> \o p : p \in Perms(S \ {x})} : x \in S}

EmptyDict == [c \in {} |-> 0]

NoCall == [op |-> "init", a |-> "", b |-> "", pre |-> 0]

\* the locals of schedule_exams, and where control is in it
Frame(pc, sorted, i, assigned, slot, ts, slot_counts) ==
    [pc |-> pc, sorted_courses |-> sorted, i |-> i, assigned_slots |-> assigned,
     slot |-> slot, time_slots |-> ts, slot_counts |-> slot_counts]

NoRun == Frame("idle", <<>>, 0, {}, 0, EmptyDict, EmptyDict)

-----------------------------------------------------------------------------
(* collections.defaultdict *)

\* value read by self.graph[c]: the stored set, or the default set()
Get(g, c) == IF c \in DOMAIN g THEN g[c] ELSE {}

\* state of the mapping after evaluating self.graph[c]: a missing key is inserted
Touch(g, c) == [k \in DOMAIN g \cup {c} |-> Get(g, k)]

\* value read by slot_counts[slot] on a defaultdict(int)
SlotCount(slot_counts, slot) == IF slot \in DOMAIN slot_counts THEN slot_counts[slot] ELSE 0

-----------------------------------------------------------------------------
(* ExamScheduler *)

add_course(cs, course) == cs \cup {course}

remove_course_NoDiscard(cs, g, course) ==
    IF course \in cs
    THEN [courses |-> cs \ {course},
          graph   |-> [k \in DOMAIN g \ {course} |-> g[k]]]
    ELSE [courses |-> cs, graph |-> g]

remove_course(cs, g, course) ==
    IF course \in cs
    THEN [courses |-> cs \ {course},
          graph   |-> [k \in DOMAIN g \ {course} |-> g[k] \ {course}]]
    ELSE [courses |-> cs, graph |-> g]

add_conflict_OneWay(cs, g, course1, course2) ==
    LET g1 == [Touch(g, course1) EXCEPT ![course1] = @ \cup {course2}]
    IN  [courses |-> cs \cup {course1, course2}, graph |-> g1]

add_conflict(cs, g, course1, course2) ==
    LET g1 == [Touch(g, course1) EXCEPT ![course1] = @ \cup {course2}]
        g2 == [Touch(g1, course2) EXCEPT ![course2] = @ \cup {course1}]
    IN  [courses |-> cs \cup {course1, course2}, graph |-> g2]

\* iteration order of the set self.courses under the process' hash ranking
IterOrder(cs, h) == SelectSeq(h, LAMBDA c : c \in cs)

Degree(g, c) == Cardinality(Get(g, c))

\* sorted(..., key=degree, reverse=True): stable, ties keep the iteration order
RECURSIVE SortByDegree(_, _, _)
SortByDegree(seq, g, d) ==
    IF d < 0 THEN <<>>
    ELSE SelectSeq(seq, LAMBDA c : Degree(g, c) = d) \o SortByDegree(seq, g, d - 1)

sorted_courses_GraphKeys(cs, g, h) ==
    SortByDegree(IterOrder(cs \cap {k \in DOMAIN g : g[k] # {}}, h), g, Cardinality(cs) + 1)

sorted_courses(cs, g, h) == SortByDegree(IterOrder(cs, h), g, Cardinality(cs) + 1)

SlotCapacity == 2

FirstSlot == 1

NextSlot_SkipOne(slot) == slot + 2

\* slot += 1
NextSlot(slot) == slot + 1

assigned_slots(g, ts, course) ==
    {ts[neighbor] : neighbor \in {n \in Get(g, course) : n \in DOMAIN ts}}

SlotTaken_OffByOne(slot, assigned, slot_counts) ==
    slot \in assigned \/ SlotCount(slot_counts, slot) > SlotCapacity

\* the while condition of the slot scan
SlotTaken(slot, assigned, slot_counts) ==
    slot \in assigned \/ SlotCount(slot_counts, slot) >= SlotCapacity

RECURSIVE FindSlot(_, _, _)
FindSlot(slot, assigned, slot_counts) ==
    IF SlotTaken(slot, assigned, slot_counts)
    THEN FindSlot(NextSlot(slot), assigned, slot_counts)
    ELSE slot

\* the for loop over sorted_courses, from position i with the dicts built so far
RECURSIVE AssignFrom(_, _, _, _, _)
AssignFrom(sorted, i, g, ts, slot_counts) ==
    IF i > Len(sorted) THEN ts
    ELSE LET course == sorted[i]
             slot   == FindSlot(FirstSlot, assigned_slots(g, ts, course), slot_counts)
             ts1    == [c \in DOMAIN ts \cup {course} |-> IF c = course THEN slot ELSE ts[c]]
             sc1    == [s \in DOMAIN slot_counts \cup {slot} |->
                            IF s = slot THEN SlotCount(slot_counts, slot) + 1
                            ELSE slot_counts[s]]
         IN  AssignFrom(sorted, i + 1, g, ts1, sc1)

\* schedule_exams: the returned dict and the graph as the key lookups leave it
schedule_exams(cs, g, h) ==
    IF cs = {}
    THEN [time_slots |-> EmptyDict, graph |-> g]
    ELSE LET g1 == [k \in DOMAIN g \cup cs |-> Get(g, k)]
         IN  [time_slots |-> AssignFrom(sorted_courses(cs, g, h), 1, g1, EmptyDict, EmptyDict),
              graph      |-> g1]

-----------------------------------------------------------------------------
(* Spec: a host calling ExamScheduler *)

Init ==
    /\ courses = {}
    /\ graph = EmptyDict
    /\ hash_order \in Perms(Items)
    /\ time_slots = EmptyDict
    /\ schedule_result = EmptyDict
    /\ courses_listbox = <<>>
    /\ last = NoCall
    /\ run = NoRun

AddCourse(c) ==
    /\ courses' = add_course(courses, c)
    /\ time_slots' = EmptyDict
    /\ last' = [op |-> "add_course", a |-> c, b |-> "", pre |-> 0]
    /\ UNCHANGED <<graph, hash_order, schedule_result, courses_listbox, run>>

RemoveCourse(c) ==
    LET r == remove_course(courses, graph, c)
    IN  /\ courses' = r.courses
        /\ graph' = r.graph
        /\ time_slots' = EmptyDict
        /\ last' = [op |-> "remove_course", a |-> c, b |-> "",
                    pre |-> IF c \in courses THEN Degree(graph, c) ELSE -1]
        /\ UNCHANGED <<hash_order, schedule_result, courses_listbox, run>>

AddConflict(c1, c2) ==
    LET r == add_conflict(courses, graph, c1, c2)
    IN  /\ courses' = r.courses
        /\ graph' = r.graph
        /\ time_slots' = EmptyDict
        /\ last' = [op |-> "add_conflict", a |-> c1, b |-> c2, pre |-> 0]
        /\ UNCHANGED <<hash_order, schedule_result, courses_listbox, run>>

ScheduleExams ==
    LET r == schedule_exams(courses, graph, hash_order)
    IN  /\ graph' = r.graph
        /\ time_slots' = r.time_slots
        /\ last' = [op |-> "schedule_exams", a |-> "", b |-> "", pre |-> 0]
        /\ UNCHANGED <<courses, hash_order, schedule_result, courses_listbox, run>>

Next ==
    \/ \E c \in Items : AddCourse(c)
    \/ \E c \in Items : RemoveCourse(c)
    \/ \E c1 \in Items : \E c2 \in Items : AddConflict(c1, c2)
    \/ ScheduleExams

Spec == Init /\ [][Next]_vars

-----------------------------------------------------------------------------
(* SpecRun: schedule_exams statement by statement *)

\* the states of (courses, graph) a host can produce: the keys of graph are
\* courses, every conflict set holds courses only, and the relation is symmetric
SchedulerStates ==
    UNION {UNION {{[courses |-> cs, graph |-> g] :
                      g \in {f \in [keys -> SUBSET cs] :
                               \A a \in keys : \A b \in f[a] : b \in keys /\ a \in f[b]}} :
                  keys \in SUBSET cs} :
           cs \in SUBSET Items}

RunInit ==
    /\ \E st \in SchedulerStates : courses = st.courses /\ graph = st.graph
    /\ hash_order \in Perms(Items)
    /\ time_slots = EmptyDict
    /\ schedule_result = EmptyDict
    /\ courses_listbox = <<>>
    /\ last = NoCall
    /\ run = Frame("call", <<>>, 0, {}, 0, EmptyDict, EmptyDict)

\* if not self.courses: return {}   /   sorted_courses = sorted(...), the two empty dicts
RunEnter ==
    /\ run.pc = "call"
    /\ IF courses = {}
       THEN /\ run' = [run EXCEPT !.pc = "done"]
            /\ time_slots' = EmptyDict
            /\ last' = [op |-> "schedule_exams", a |-> "", b |-> "", pre |-> 0]
            /\ UNCHANGED graph
       ELSE /\ run' = Frame("for", sorted_courses(courses, graph, hash_order), 1, {}, 0,
                            EmptyDict, EmptyDict)
            /\ graph' = [k \in DOMAIN graph \cup courses |-> Get(graph, k)]
            /\ UNCHANGED <<time_slots, last>>
    /\ UNCHANGED <<courses, hash_order, schedule_result, courses_listbox>>

\* for course in sorted_courses: assigned_slots = {...}; slot = 1   /   return time_slots
RunFor ==
    /\ run.pc = "for"
    /\ IF run.i > Len(run.sorted_courses)
       THEN /\ run' = [run EXCEPT !.pc = "done"]
            /\ time_slots' = run.time_slots
            /\ last' = [op |-> "schedule_exams", a |-> "", b |-> "", pre |-> 0]
       ELSE /\ run' = [run EXCEPT
                         !.pc = "while",
                         !.assigned_slots =
                             assigned_slots(graph, run.time_slots, run.sorted_courses[run.i]),
                         !.slot = FirstSlot]
            /\ UNCHANGED <<time_slots, last>>
    /\ UNCHANGED <<courses, graph, hash_order, schedule_result, courses_listbox>>

\* while slot in assigned_slots or slot_counts[slot] >= 2: slot += 1
\* time_slots[course] = slot; slot_counts[slot] += 1
RunWhile ==
    /\ run.pc = "while"
    /\ IF SlotTaken(run.slot, run.assigned_slots, run.slot_counts)
       THEN run' = [run EXCEPT !.slot = NextSlot(run.slot)]
       ELSE LET course == run.sorted_courses[run.i]
                ts     == run.time_slots
                sc     == run.slot_counts
            IN  run' = [run EXCEPT
                          !.pc = "for",
                          !.i = run.i + 1,
                          !.time_slots =
                              [c \in DOMAIN ts \cup {course} |->
                                  IF c = course THEN run.slot ELSE ts[c]],
                          !.slot_counts =
                              [s \in DOMAIN sc \cup {run.slot} |->
                                  IF s = run.slot THEN SlotCount(sc, run.slot) + 1 ELSE sc[s]]]
    /\ UNCHANGED <<courses, graph, hash_order, time_slots, schedule_result, courses_listbox, last>>

RunNext ==
    \/ RunEnter
    \/ RunFor
    \/ RunWhile

\* the call runs on the caller's thread with nothing to wait for: it keeps stepping
SpecRun == RunInit /\ [][RunNext]_vars /\ WF_vars(RunNext)

-----------------------------------------------------------------------------
(* ExamPlannerUI *)

ExampleCourses ==
    <<"Maths(CSE/IT)", "Physics(CSE/IT)", "Basic Electrical Engineering(CSE/IT)",
      "English(CSE/IT)", "Programming for Problem solving(CT)", "Maths(CT)",
      "Chemistry(CT)", "Electronics(CT)">>

ExampleConflicts ==
    << <<"Maths(CSE/IT)", "Physics(CSE/IT)">>,
       <<"Maths(CSE/IT)", "Basic Electrical Engineering(CSE/IT)">>,
       <<"Basic Electrical Engineering(CSE/IT)", "Physics(CSE/IT)">>,
       <<"English(CSE/IT)", "Maths(CSE/IT)">>,
       <<"Physics(CSE/IT)", "English(CSE/IT)">>,
       <<"Basic Electrical Engineering(CSE/IT)", "English(CSE/IT)">>,
       <<"Programming for Problem solving(CT)", "Maths(CT)">>,
       <<"Programming for Problem solving(CT)", "Chemistry(CT)">>,
       <<"Maths(CT)", "Electronics(CT)">>,
       <<"Maths(CT)", "Chemistry(CT)">>,
       <<"Electronics(CT)", "Programming for Problem solving(CT)">>,
       <<"Chemistry(CT)", "Electronics(CT)">>,
       <<"Maths(CT)", "Maths(CSE/IT)">> >>

RECURSIVE AddCourses(_, _, _)
AddCourses(cs, names, i) ==
    IF i > Len(names) THEN cs ELSE AddCourses(add_course(cs, names[i]), names, i + 1)

RECURSIVE AddConflicts(_, _, _, _)
AddConflicts(cs, g, pairs, i) ==
    IF i > Len(pairs) THEN [courses |-> cs, graph |-> g]
    ELSE LET r == add_conflict(cs, g, pairs[i][1], pairs[i][2])
         IN  AddConflicts(r.courses, r.graph, pairs, i + 1)

\* load_example_data on a scheduler holding (cs, g)
load_example_data(cs, g) ==
    AddConflicts(AddCourses(cs, ExampleCourses, 1), g, ExampleConflicts, 1)

\* a name the user may type that is not in the example data
NewCourse == "Art"

\* the names of the UI universe in the order sorted() gives them
UILexOrder ==
    <<"Art", "Basic Electrical Engineering(CSE/IT)", "Chemistry(CT)", "Electronics(CT)",
      "English(CSE/IT)", "Maths(CSE/IT)", "Maths(CT)", "Physics(CSE/IT)",
      "Programming for Problem solving(CT)">>

Reverse(seq) == [i \in 1..Len(seq) |-> seq[Len(seq) + 1 - i]]

\* hash rankings explored by SpecUI: a sample of the 9! a process can have
UIHashOrders == {UILexOrder, Reverse(UILexOrder)}

\* update_courses_list: the rows are sorted(self.scheduler.courses)
update_courses_list(cs) == SelectSeq(UILexOrder, LAMBDA c : c \in cs)

\* what the user can have in an Entry: a name, or nothing, with pad blanks around it
TypedNames == {"", NewCourse, "Maths(CT)"}

MaxPad == 1

\* the rows of the list the user may select: the first MaxSelection
MaxSelection == 1

Min(x, y) == IF x <= y THEN x ELSE y

EntryTexts == [pad : 0..MaxPad, body : TypedNames]

\* Entry.get().strip()
Strip(text) == text.body

UICall(op, a, b, done) == [op |-> op, a |-> a, b |-> b, pre |-> IF done THEN 1 ELSE 0]

UIInit ==
    LET loaded == load_example_data({}, EmptyDict)
        first  == schedule_exams(loaded.courses, loaded.graph, hash_order)
    IN  /\ hash_order \in UIHashOrders
        /\ courses = loaded.courses
        /\ graph = first.graph
        /\ time_slots = first.time_slots
        /\ schedule_result = first.time_slots
        /\ courses_listbox = update_courses_list(loaded.courses)
        /\ last = UICall("display_initial_schedule", "", "", TRUE)
        /\ run = NoRun

UIAddCourse(text) ==
    LET course_name == Strip(text)
    IN  /\ time_slots' = EmptyDict
        /\ IF course_name = "" \/ course_name \in courses
           THEN /\ last' = UICall("ui_add_course", course_name, "", FALSE)
                /\ UNCHANGED <<courses, courses_listbox>>
           ELSE /\ courses' = add_course(courses, course_name)
                /\ courses_listbox' = update_courses_list(courses')
                /\ last' = UICall("ui_add_course", course_name, "", TRUE)
        /\ UNCHANGED <<graph, hash_order, schedule_result, run>>

\* selection = 0: no row is selected
UIRemoveSelectedCourse(selection) ==
    /\ time_slots' = EmptyDict
    /\ IF selection = 0
       THEN /\ last' = UICall("ui_remove_selected_course", "", "", FALSE)
            /\ UNCHANGED <<courses, graph, courses_listbox>>
       ELSE LET course_name == courses_listbox[selection]
                r == remove_course(courses, graph, course_name)
            IN  /\ courses' = r.courses
                /\ graph' = r.graph
                /\ courses_listbox' = update_courses_list(r.courses)
                /\ last' = UICall("ui_remove_selected_course", course_name, "", TRUE)
    /\ UNCHANGED <<hash_order, schedule_result, run>>

UIAddConflict(text1, text2) ==
    LET course1 == Strip(text1)
        course2 == Strip(text2)
    IN  /\ time_slots' = EmptyDict
        /\ IF \/ course1 = "" \/ course2 = ""
              \/ course1 = course2
              \/ course1 \notin courses \/ course2 \notin courses
           THEN /\ last' = UICall("ui_add_conflict", course1, course2, FALSE)
                /\ UNCHANGED <<courses, graph>>
           ELSE LET r == add_conflict(courses, graph, course1, course2)
                IN  /\ courses' = r.courses
                    /\ graph' = r.graph
                    /\ last' = UICall("ui_add_conflict", course1, course2, TRUE)
        /\ UNCHANGED <<hash_order, schedule_result, courses_listbox, run>>

UIGenerateSchedule ==
    IF courses = {}
    THEN /\ time_slots' = EmptyDict
         /\ last' = UICall("generate_schedule", "", "", FALSE)
         /\ UNCHANGED <<courses, graph, hash_order, schedule_result, courses_listbox, run>>
    ELSE LET r == schedule_exams(courses, graph, hash_order)
         IN  /\ graph' = r.graph
             /\ time_slots' = r.time_slots
             /\ schedule_result' = r.time_slots
             /\ last' = UICall("generate_schedule", "", "", TRUE)
             /\ UNCHANGED <<courses, hash_order, courses_listbox, run>>

\* the list is refreshed from the new, still empty scheduler, before the
\* example data is loaded into it
UIReset(confirmed) ==
    IF ~confirmed
    THEN /\ time_slots' = EmptyDict
         /\ last' = UICall("reset", "", "", FALSE)
         /\ UNCHANGED <<courses, graph, hash_order, schedule_result, courses_listbox, run>>
    ELSE LET loaded == load_example_data({}, EmptyDict)
             first  == schedule_exams(loaded.courses, loaded.graph, hash_order)
         IN  /\ courses_listbox' = update_courses_list({})
             /\ courses' = loaded.courses
             /\ graph' = first.graph
             /\ time_slots' = first.time_slots
             /\ schedule_result' = first.time_slots
             /\ last' = UICall("reset", "", "", TRUE)
             /\ UNCHANGED <<hash_order, run>>

UINext ==
    \/ \E text \in EntryTexts : UIAddCourse(text)
    \/ \E selection \in 0..Min(MaxSelection, Len(courses_listbox)) :
          UIRemoveSelectedCourse(selection)
    \/ \E text1 \in EntryTexts : \E text2 \in EntryTexts : UIAddConflict(text1, text2)
    \/ UIGenerateSchedule
    \/ \E confirmed \in BOOLEAN : UIReset(confirmed)

SpecUI == UIInit /\ [][UINext]_vars

-----------------------------------------------------------------------------
(* Properties of Spec *)

Returned == last.op = "schedule_exams"

SlotsUsed == {time_slots[c] : c \in DOMAIN time_slots}

Occupants(s) == {c \in DOMAIN time_slots : time_slots[c] = s}

\* C1: in the Assignment returned by schedule, every pair of items (a, b) of
\* ItemSet with b in a's conflict set has different slot indices, whatever
\* add_item / remove_item / add_conflict calls came before.
C1_ConflictingPairsDiffer ==
    Returned =>
        \A a \in courses : \A b \in courses :
            b \in Get(graph, a) => time_slots[a] # time_slots[b]

\* what the greedy loop does guarantee: two different items that conflict are
\* never in the same slot (an invariant of Spec, self-conflicts included)
DistinctConflictingPairsDiffer ==
    Returned =>
        \A a \in courses : \A b \in courses :
            (a # b /\ b \in Get(graph, a)) => time_slots[a] # time_slots[b]

\* C2: in the Assignment returned by schedule, no slot index holds more items
\* than the capacity, which is 2 (schedule_exams takes no capacity argument).
C2_SlotCapacityRespected ==
    Returned => \A s \in SlotsUsed : Cardinality(Occupants(s)) <= SlotCapacity

\* capacity alone pushes an item that conflicts with nothing out of a full slot
C2_Witness ==
    /\ Returned
    /\ Cardinality(Occupants(1)) = SlotCapacity
    /\ \E c \in courses : Get(graph, c) = {} /\ time_slots[c] = 2

Irreflexive == \A a \in DOMAIN graph : a \notin graph[a]

\* C3: add_conflict(a, a) is rejected and leaves ItemSet and ConflictGraph
\* unchanged, so no item is ever in its own conflict set.
C3_SelfConflictRejected ==
    [][/\ (last'.op = "add_conflict" /\ last'.a = last'.b)
            => (courses' = courses /\ graph' = graph)
       /\ Irreflexive'
      ]_vars

\* C4: the conflict relation is symmetric in every reachable state, and right
\* after add_conflict(a, b) each of a and b is in the other's conflict set.
C4_Symmetric ==
    /\ \A a \in Items : \A b \in Items : (b \in Get(graph, a)) <=> (a \in Get(graph, b))
    /\ last.op = "add_conflict" =>
          (last.b \in Get(graph, last.a) /\ last.a \in Get(graph, last.b))

\* an edge between two different items survives the removal of a third item
C4_Witness ==
    /\ last.op = "remove_course"
    /\ last.pre > 0
    /\ \E a \in courses : \E b \in courses :
          a # b /\ b \in Get(graph, a) /\ a \in Get(graph, b)

EdgesInItemSet ==
    \A a \in DOMAIN graph : graph[a] # {} => (a \in courses /\ graph[a] \subseteq courses)

\* C5: after remove_item(x), x is not in ItemSet, has no conflicts of its own
\* and is in nobody's conflict set; removing an absent x changes nothing; and
\* every item on an edge of ConflictGraph is in ItemSet.
C5_RemoveItem ==
    [][/\ last'.op = "remove_course" =>
            /\ last'.a \notin courses'
            /\ Get(graph', last'.a) = {}
            /\ \A k \in DOMAIN graph' : last'.a \notin graph'[k]
            /\ last'.a \notin courses => (courses' = courses /\ graph' = graph)
       /\ EdgesInItemSet
       /\ EdgesInItemSet'
      ]_vars

\* an item with two neighbours has just been removed and an edge is left
C5_Witness ==
    /\ last.op = "remove_course"
    /\ last.pre >= 2
    /\ last.a \notin courses
    /\ \E k \in courses : Get(graph, k) # {}

\* C6: schedule always terminates, and the Assignment it returns has exactly
\* ItemSet as its domain and integers >= 1 as its values; for an empty ItemSet
\* it is empty.
C6_TerminatesCoveringItemSet ==
    /\ <>(run.pc = "done")
    /\ [](Returned =>
            /\ run.pc = "done"
            /\ DOMAIN time_slots = courses
            /\ \A c \in DOMAIN time_slots : time_slots[c] \in Nat /\ time_slots[c] >= 1
            /\ courses = {} => time_slots = EmptyDict)

\* a finished call over a proper, non-empty part of the universe, in which the
\* slot scan had to step past slot 1
C6_Witness ==
    /\ Returned
    /\ run.pc = "done"
    /\ courses # {}
    /\ courses # Items
    /\ DOMAIN time_slots = courses
    /\ \E c \in courses : time_slots[c] > 1

\* degree descending, ties in lexicographic order of the identifier
ScheduleLex(cs, g) == schedule_exams(cs, g, LexOrder).time_slots

\* C7: schedule processes items by degree descending with ties in
\* lexicographic order of the identifier, so the Assignment it returns is the
\* one that order gives ({A:1, B:2, C:1, D:2} on the 4-cycle A-B, B-C, C-D, A-D),
\* and a second call on the unchanged state returns the same Assignment.
C7_LexicographicTieBreak ==
    [][/\ last'.op = "schedule_exams" => time_slots' = ScheduleLex(courses, graph)
       /\ (Returned /\ last'.op = "schedule_exams") => time_slots' = time_slots
      ]_vars

\* C8: schedule leaves ItemSet and the ConflictGraph mapping (its keys and
\* every conflict set) as they were before the call.
C8_ScheduleLeavesStateUnchanged ==
    [][last'.op = "schedule_exams" => (courses' = courses /\ graph' = graph)]_vars

\* C10: the slot indices of a returned Assignment are contiguous from 1: every
\* slot below an assigned one is occupied, the number of occupied slots is the
\* largest index, and no index exceeds the number of items.
C10_SlotsContiguous ==
    Returned =>
        /\ \A c \in DOMAIN time_slots : \A s \in 1..(time_slots[c] - 1) : Occupants(s) # {}
        /\ \A s \in SlotsUsed : s <= Cardinality(SlotsUsed)
        /\ \A s \in SlotsUsed : s <= Cardinality(courses)

\* three slots in use
C10_Witness ==
    /\ Returned
    /\ \E c \in DOMAIN time_slots : time_slots[c] = 3

-----------------------------------------------------------------------------
(* Properties of SpecUI *)

\* C9: the Assignment the program holds (schedule_result) is discarded or
\* replaced by the end of every operation that changes ItemSet or
\* ConflictGraph: in every state it is empty or equals what schedule returns
\* on the current ItemSet and ConflictGraph, and it maps no removed item.
C9_HeldAssignmentIsCurrent ==
    /\ \/ schedule_result = EmptyDict
       \/ schedule_result = schedule_exams(courses, graph, hash_order).time_slots
    /\ DOMAIN schedule_result \subseteq courses

====
